---- MODULE Spec2Model ----
(***************************************************************************)
(* A model of src/fuzzer/fuzzer.py: the Fuzzer object that prepares a job  *)
(* directory, launches AFL worker processes, and reads their status and    *)
(* crash files back from the sync directory.                               *)
(*                                                                         *)
(* The model is one state machine.  Its state is the job directory on      *)
(* disk, the operating system's process table, and the fields of one       *)
(* Fuzzer object.  Each public method is one action; the environment       *)
(* (workers exiting, workers writing status and crash files) is modelled   *)
(* by separate actions.                                                    *)
(***************************************************************************)
EXTENDS Integers, Sequences, FiniteSets, TLC

(***************************************************************************)
(* Bounds of the model.                                                    *)
(***************************************************************************)
\* the largest afl_count passed to the constructor
MaxCount == 3
\* the largest value fuzz_id may reach (launch attempts per object)
MaxWorkers == 3
\* the largest n passed to add_fuzzers(n)
MaxAdd == 2
\* the longest seed list passed to the constructor
MaxSeeds == 2
\* workers that end by themselves, before kill() ends them
MaxExits == 1
\* workers that have written a status file
MaxStatFiles == 1
\* launch attempts per object where the constructor's arguments vary
MaxLaunch == 2

(***************************************************************************)
(* Text.  A file's content is a sequence of tokens; a token stands for a   *)
(* run of characters that holds neither ':' nor '\n' nor ' '.              *)
(***************************************************************************)
NL == "\n"
COLON == ":"
SP == " "
Digits == {"0", "1", "2", "3", "4", "5", "6", "7", "8", "9"}
DigitVal == [d \in Digits |->
               CASE d = "0" -> 0 [] d = "1" -> 1 [] d = "2" -> 2 [] d = "3" -> 3
                 [] d = "4" -> 4 [] d = "5" -> 5 [] d = "6" -> 6 [] d = "7" -> 7
                 [] d = "8" -> 8 [] d = "9" -> 9]

\* str.split(sep): the pieces between the occurrences of sep, empty ones kept
RECURSIVE SplitFrom(_, _, _, _)
SplitFrom(s, sep, i, cur) ==
    IF i > Len(s) THEN << cur >>
    ELSE IF s[i] = sep THEN << cur >> \o SplitFrom(s, sep, i + 1, << >>)
    ELSE SplitFrom(s, sep, i + 1, Append(cur, s[i]))

Split(s, sep) == SplitFrom(s, sep, 1, << >>)

\* x[:-1]
DropLast(x) == SubSeq(x, 1, Len(x) - 1)

\* str.strip(): leading and trailing white space removed
RECURSIVE LStrip(_)
LStrip(s) == IF s # << >> /\ Head(s) \in {SP, NL} THEN LStrip(Tail(s)) ELSE s

RECURSIVE RStrip(_)
RStrip(s) ==
    IF s # << >> /\ s[Len(s)] \in {SP, NL} THEN RStrip(DropLast(s)) ELSE s

Strip(s) == RStrip(LStrip(s))

\* int(s) succeeds on a non-empty run of digits (white space around it is
\* ignored); on anything else it raises ValueError
IsInt(s) == Strip(s) # << >> /\ \A i \in 1..Len(Strip(s)) : Strip(s)[i] \in Digits

RECURSIVE DigitsValue(_)
DigitsValue(s) ==
    IF s = << >> THEN 0 ELSE 10 * DigitsValue(DropLast(s)) + DigitVal[s[Len(s)]]

IntOf(s) == DigitsValue(Strip(s))

(***************************************************************************)
(* Names and paths.  "%d" formatting is kept as a pair (prefix, number),   *)
(* so that two names are equal exactly when the formatted strings are.     *)
(***************************************************************************)
\* the template of line 231 without its index: every seed goes to one file
SeedFileNoIndex(i) == << "seed-", 0 >>

\* "seed-%d" % i  (line 231)
SeedFile(i) == << "seed-", i >>
\* "fuzzer-master" or "fuzzer-%d" % fuzz_id  (lines 286, 289)
FuzzerName(id) == IF id = 0 THEN << "fuzzer-master" >> ELSE << "fuzzer-", id >>
\* "fuzzer-master.log" or "fuzzer-%d.log" % fuzz_id  (lines 287, 290)
LogName(id) == IF id = 0 THEN << "fuzzer-master", ".log" >>
               ELSE << "fuzzer-", id, ".log" >>
\* the role flag of the worker's command line
RoleFlag(id) == IF id = 0 THEN "-M" ELSE "-S"

InputPath == "input"
ResumeSentinel == "-"
DictPath == "dict"
NoDict == "None"
README == "README.txt"

(***************************************************************************)
(* Directories are functions from entry names to contents.                 *)
(***************************************************************************)
EmptyDir == [n \in {} |-> << >>]
Put(dir, name, content) ==
    [n \in DOMAIN dir \cup {name} |-> IF n = name THEN content ELSE dir[n]]

NoStat == [isfile |-> FALSE, blob |-> << >>]
StatFile(blob) == [isfile |-> TRUE, blob |-> blob]
NoCrashDir == [isdir |-> FALSE, files |-> EmptyDir]
CrashDir(files) == [isdir |-> TRUE, files |-> files]
NoOutDir == [exists |-> FALSE, dirs |-> EmptyDir]
NoInDir == [exists |-> FALSE, files |-> EmptyDir]

(***************************************************************************)
(* stats(): lines 152-169.                                                 *)
(***************************************************************************)
\* lines 165-167: one "key: value" line after the other; a line that does
\* not split into exactly two pieces raises ValueError (tuple unpacking)
RECURSIVE ParseLines(_, _, _)
ParseLines(lines, i, acc) ==
    IF i > Len(lines) THEN [exc |-> "none", val |-> acc]
    ELSE LET parts == Split(lines[i], COLON) IN
         IF Len(parts) # 2 THEN [exc |-> "ValueError", val |-> acc]
         ELSE ParseLines(lines, i + 1, Put(acc, Strip(parts[1]), Strip(parts[2])))

\* lines 162-167: the file is split at '\n' and the last piece is dropped
ParseStatFile(blob) == ParseLines(DropLast(Split(blob, NL)), 1, EmptyDir)

\* line 159: the entries of the sync directory that hold a status file
StatDirs(out) == {d \in DOMAIN out.dirs : out.dirs[d].stat.isfile}

\* lines 152-169: the whole scan; an exception in any file leaves the scan
stats(out) ==
    IF ~out.exists THEN [exc |-> "none", val |-> EmptyDir]
    ELSE IF \E d \in StatDirs(out) : ParseStatFile(out.dirs[d].stat.blob).exc # "none"
         THEN [exc |-> "ValueError", val |-> EmptyDir]
         ELSE [exc |-> "none",
               val |-> [d \in StatDirs(out) |-> ParseStatFile(out.dirs[d].stat.blob).val]]

\* the orders in which a dict or a directory listing may be iterated
Orders(S) == {o \in [1..Cardinality(S) -> S] :
                 \A i, j \in 1..Cardinality(S) : o[i] = o[j] => i = j}

(***************************************************************************)
(* found_crash(): lines 171-182.                                           *)
(***************************************************************************)
UNIQUE_CRASHES == << "unique_crashes" >>
FUZZER_PID == << "fuzzer_pid" >>

\* lines 175-182: the loop over the jobs, in the order the dict yields them
RECURSIVE CrashLoop(_, _, _)
CrashLoop(st, order, i) ==
    IF i > Len(order) THEN [exc |-> "none", val |-> FALSE]
    ELSE LET job == st[order[i]] IN
         IF UNIQUE_CRASHES \notin DOMAIN job THEN CrashLoop(st, order, i + 1)
         ELSE IF ~IsInt(job[UNIQUE_CRASHES]) THEN [exc |-> "ValueError", val |-> FALSE]
         ELSE IF IntOf(job[UNIQUE_CRASHES]) > 0 THEN [exc |-> "none", val |-> TRUE]
         ELSE CrashLoop(st, order, i + 1)

found_crash(out, order) ==
    LET st == stats(out) IN
    IF st.exc # "none" THEN [exc |-> st.exc, val |-> FALSE]
    ELSE CrashLoop(st.val, order, 1)

(***************************************************************************)
(* crashes(): lines 192-218.  The returned list is kept as a bag: its      *)
(* order is the set's, which the code does not fix.                        *)
(***************************************************************************)
EmptyBag == [x \in {} |-> 0]

\* line 216 on a list instead of a set: crashes.append(f.read())
AppendCrash(acc, content) ==
    Put(acc, content, IF content \in DOMAIN acc THEN acc[content] + 1 ELSE 1)

\* line 216: crashes.add(f.read())
AddCrash(acc, content) == Put(acc, content, 1)

\* lines 209-216: the files of one crashes directory, README.txt skipped
RECURSIVE CrashFiles(_, _, _, _)
CrashFiles(files, order, i, acc) ==
    IF i > Len(order) THEN acc
    ELSE IF order[i] = README THEN CrashFiles(files, order, i + 1, acc)
    ELSE CrashFiles(files, order, i + 1, AddCrash(acc, files[order[i]]))

\* a listing order of a directory (the result does not depend on it)
Listing(dir) == CHOOSE o \in Orders(DOMAIN dir) : TRUE

\* lines 202-216: every entry of the sync directory
RECURSIVE CrashWalk(_, _, _, _)
CrashWalk(out, order, i, acc) ==
    IF i > Len(order) THEN acc
    ELSE LET c == out.dirs[order[i]].crashes IN
         IF ~c.isdir THEN CrashWalk(out, order, i + 1, acc)
         ELSE CrashWalk(out, order, i + 1, CrashFiles(c.files, Listing(c.files), 1, acc))

crashes(out, order) ==
    LET fc == found_crash(out, order) IN
    IF fc.exc # "none" THEN [exc |-> fc.exc, val |-> EmptyBag]
    ELSE IF ~fc.val THEN [exc |-> "none", val |-> EmptyBag]
    ELSE [exc |-> "none", val |-> CrashWalk(out, Listing(out.dirs), 1, EmptyBag)]

(***************************************************************************)
(* State.                                                                  *)
(***************************************************************************)
VARIABLES
    \* the job directory on disk
    in_disk,      \* <job_dir>/input: whether it exists, and its files
    dict_file,    \* whether <job_dir>/<binary_id>.dict is a file
    out_disk,     \* <job_dir>/sync: one entry per worker directory
    jfile,        \* the temporary file of the latest preflight check
    \* the operating system
    ptable,       \* process id -> "running" or "zombie" (exited, not reaped)
    nextPid,      \* the process id the next child gets
    \* the Fuzzer object
    phase,        \* "none": no object; "ready": __init__ has returned
    afl_count, seeds, extra_opts, dictionary, procs, fuzz_id, resuming, _on, in_dir,
    \* observation
    launched,     \* every worker process created so far, in launch order
    ret           \* the most recent call: its name, argument, exception, result

diskVars == << in_disk, dict_file, out_disk, jfile >>
osVars == << ptable, nextPid >>
cfgVars == << phase, afl_count, seeds, extra_opts, dictionary, resuming, in_dir >>
runVars == << procs, fuzz_id, _on >>
vars == << diskVars, osVars, cfgVars, runVars, launched, ret >>

\* a call's record; val holds a boolean result, out a function-valued one
Ret(op, arg, exc, val, out) ==
    [op |-> op, arg |-> arg, pre |-> "", exc |-> exc, val |-> val, out |-> out]
\* start(): pre is what the preflight harness did
StartRet(pre, exc) ==
    [op |-> "start", arg |-> 0, pre |-> pre, exc |-> exc, val |-> FALSE,
     out |-> [n \in {} |-> << >>]]

\* optional arguments of the constructor
None == [tag |-> "None", v |-> << >>]
List(v) == [tag |-> "list", v |-> v]
Str(v) == [tag |-> "str", v |-> v]

(***************************************************************************)
(* The environment before the first object is constructed.                 *)
(***************************************************************************)
\* a process that is no child of this object (a worker of an earlier run);
\* the children get the process ids 1..MaxWorkers
OtherPid == MaxWorkers + 1

SeedBytes == {"A", "B"}
DefaultSeeds == << "fuzz" >>

\* "%d" % n: the decimal digits of n
RECURSIVE Decimal(_)
Decimal(n) ==
    LET d == CHOOSE t \in Digits : DigitVal[t] = n % 10
    IN  IF n < 10 THEN << d >> ELSE Append(Decimal(n \div 10), d)

\* a status file as afl-fuzz writes it
GoodStat(pid, ncrashes) ==
    << "fuzzer_pid", SP, COLON, SP >> \o Decimal(pid) \o << NL >>
    \o << "unique_crashes", SP, COLON, SP >> \o Decimal(ncrashes) \o << NL >>

OldInput == [n \in {<< "old", 0 >>} |-> "A"]
InDisks == {NoInDir,
            [exists |-> TRUE, files |-> EmptyDir],
            [exists |-> TRUE, files |-> OldInput]}

WorkerDir(stat, crashdir) == [stat |-> stat, crashes |-> crashdir]
StaleOut ==
    [exists |-> TRUE,
     dirs |-> [d \in {FuzzerName(0)} |->
                 WorkerDir(StatFile(GoodStat(OtherPid, 0)), NoCrashDir)]]

NoHandle == [pid |-> 0, id |-> 0, flag |-> "", name |-> << >>, log |-> << >>,
             i |-> "", x |-> "", extra |-> << >>]

InitObject ==
    /\ phase = "none"
    /\ afl_count = 0 /\ seeds = << >> /\ extra_opts = None /\ dictionary = NoDict
    /\ procs = << >> /\ fuzz_id = 0 /\ resuming = FALSE /\ _on = FALSE
    /\ in_dir = InputPath
    /\ launched = << >>
    /\ ret = Ret("none", 0, "none", FALSE, EmptyDir)

\* no object yet, no process, nothing left over from a preflight check
InitRest ==
    /\ jfile = "absent"
    /\ nextPid = 1
    /\ InitObject

\* a fresh job directory
Init ==
    /\ in_disk = NoInDir /\ dict_file = FALSE
    /\ out_disk = NoOutDir /\ ptable = EmptyDir
    /\ InitRest

(***************************************************************************)
(* __init__: lines 19-110.                                                 *)
(***************************************************************************)
\* lines 231-234: one file per seed, named by its index from 0
RECURSIVE WriteSeeds(_, _, _)
WriteSeeds(files, sds, i) ==
    IF i > Len(sds) THEN files
    ELSE WriteSeeds(Put(files, SeedFile(i - 1), sds[i]), sds, i + 1)

\* line 61 without the look into the directory
NeverResuming(disk) == FALSE

\* line 61
Resuming(disk) == disk.exists /\ DOMAIN disk.files # {}

\* lines 85-88: os.makedirs creates the directory; when it exists already,
\* or cannot be created (mk = FALSE), the OSError is logged and dropped
MakeDirs(disk, mk) ==
    IF disk.exists \/ ~mk THEN disk ELSE [exists |-> TRUE, files |-> EmptyDir]

\* lines 222-234 without the assert of line 227
InitializeSeedsNoAssert(disk, sds) ==
    IF ~disk.exists THEN [exc |-> "IOError", disk |-> disk]
    ELSE [exc |-> "none", disk |-> [disk EXCEPT !.files = WriteSeeds(@, sds, 1)]]

\* lines 222-234: [exc, disk]
InitializeSeeds(disk, sds) ==
    IF Len(sds) = 0 THEN [exc |-> "AssertionError", disk |-> disk]
    ELSE IF ~disk.exists THEN [exc |-> "IOError", disk |-> disk]
    ELSE [exc |-> "none", disk |-> [disk EXCEPT !.files = WriteSeeds(@, sds, 1)]]

\* lines 93-107: the dictionary.  build is what the create_dict.py process
\* did: "ok" (exit status 0), "failed" (another exit status), "no_exec"
\* (subprocess.Popen raised OSError).  [exc, dictionary, dict_file]
ResolveDict(hasFile, isResuming, create, build) ==
    IF hasFile THEN [exc |-> "none", dictionary |-> DictPath, dict_file |-> TRUE]
    ELSE IF ~isResuming /\ create
    THEN CASE build = "ok" ->
                [exc |-> "none", dictionary |-> DictPath, dict_file |-> TRUE]
           [] build = "failed" ->
                [exc |-> "none", dictionary |-> NoDict, dict_file |-> FALSE]
           [] OTHER ->
                [exc |-> "OSError", dictionary |-> NoDict, dict_file |-> FALSE]
    ELSE [exc |-> "none", dictionary |-> NoDict, dict_file |-> FALSE]

Construct(count, extra, create, sds, mk, build) ==
    /\ phase = "none"
    /\ UNCHANGED << out_disk, jfile, osVars, runVars, launched >>
    /\ IF extra.tag = "str"
       THEN \* lines 42-44
            /\ ret' = Ret("init", count, "ValueError", FALSE, EmptyDir)
            /\ UNCHANGED << in_disk, dict_file, cfgVars >>
       ELSE LET sd == IF sds.tag = "None" THEN DefaultSeeds ELSE sds.v
                rs == Resuming(in_disk)
                made == IF rs THEN in_disk ELSE MakeDirs(in_disk, mk)
                init == IF rs THEN [exc |-> "none", disk |-> in_disk]
                        ELSE InitializeSeeds(made, sd)
                dict == ResolveDict(dict_file, rs, create, build)
            IN  IF init.exc # "none"
                THEN /\ in_disk' = init.disk
                     /\ ret' = Ret("init", count, init.exc, FALSE, EmptyDir)
                     /\ UNCHANGED << dict_file, cfgVars >>
                ELSE /\ in_disk' = init.disk
                     /\ dict_file' = dict.dict_file
                     /\ ret' = Ret("init", count, dict.exc, FALSE, EmptyDir)
                     /\ IF dict.exc # "none"
                        THEN UNCHANGED cfgVars
                        ELSE /\ phase' = "ready"
                             /\ afl_count' = count
                             /\ seeds' = sd
                             /\ extra_opts' = extra
                             /\ dictionary' = dict.dictionary
                             /\ resuming' = rs
                             /\ in_dir' = IF rs THEN ResumeSentinel ELSE InputPath

(***************************************************************************)
(* Launching workers: lines 277-326.  A launch works on a record m of the  *)
(* fields it reads and writes: procs, fuzz_id, ptable, nextPid, launched,  *)
(* the handle it returns and the exception it raises.                      *)
(***************************************************************************)
\* what one launch meets: "ok"; "open_fails": open(outfile, "w") raises
\* IOError; "popen_fails": subprocess.Popen raises OSError
LaunchOutcomes == {"ok", "open_fails", "popen_fails"}

\* lines 279-298 with the dictionary given to the primary alone
WorkerDictPrimaryOnly(id, pid) ==
    [pid |-> pid, id |-> id, flag |-> RoleFlag(id), name |-> FuzzerName(id),
     log |-> LogName(id), i |-> in_dir,
     x |-> IF id = 0 THEN dictionary ELSE NoDict,
     extra |-> IF extra_opts.tag = "None" THEN << >> ELSE extra_opts.v]

\* lines 279-298: the command line of the worker with role number id
Worker(id, pid) ==
    [pid |-> pid, id |-> id, flag |-> RoleFlag(id), name |-> FuzzerName(id),
     log |-> LogName(id), i |-> in_dir, x |-> dictionary,
     extra |-> IF extra_opts.tag = "None" THEN << >> ELSE extra_opts.v]

\* line 306, placed between open() and Popen()
BumpId(id) == id + 1

\* lines 277-308
StartAflInstance(m, outcome) ==
    IF outcome = "open_fails" THEN [m EXCEPT !.exc = "IOError"]
    ELSE IF outcome = "popen_fails"
    THEN [m EXCEPT !.fuzz_id = BumpId(@), !.exc = "OSError"]
    ELSE LET w == Worker(m.fuzz_id, m.nextPid) IN
         [m EXCEPT !.fuzz_id = BumpId(@),
                   !.handle = w,
                   !.ptable = Put(@, w.pid, "running"),
                   !.nextPid = @ + 1,
                   !.launched = Append(@, w)]

\* self.procs.append(self._start_afl_instance()): lines 186, 316-317,
\* 320-321, 325-326
Launch(m, outcome) ==
    IF m.exc # "none" THEN m
    ELSE LET r == StartAflInstance(m, outcome) IN
         IF r.exc # "none" THEN r ELSE [r EXCEPT !.procs = Append(@, r.handle)]

\* the loop of line 324 started one too early: len(range(1, n))
RangeFrom1(n) == IF n > 1 THEN n - 1 ELSE 0

\* line 324: len(range(2, n))
RangeFrom2(n) == IF n > 2 THEN n - 2 ELSE 0

\* the launches _start_afl attempts when none fails
NumLaunches(n) == 1 + (IF n > 1 THEN 1 ELSE 0) + RangeFrom2(n)

\* lines 324-326: the loop, outs[k] being what the k-th launch of the call meets
RECURSIVE SlaveLoop(_, _, _, _)
SlaveLoop(m, outs, k, left) ==
    IF left = 0 THEN m ELSE SlaveLoop(Launch(m, outs[k]), outs, k + 1, left - 1)

\* lines 310-326
StartAfl(m, n, outs) ==
    LET master == Launch(m, outs[1])
        driller == IF n > 1 THEN Launch(master, outs[2]) ELSE master
    IN  SlaveLoop(driller, outs, 3, RangeFrom2(n))

\* the k-th launch fails in the way kind; failAt = 0: none fails
Outcomes(failAt, kind) == [k \in 1..MaxWorkers + 1 |-> IF k = failAt THEN kind ELSE "ok"]

Machine == [procs |-> procs, fuzz_id |-> fuzz_id, ptable |-> ptable,
            nextPid |-> nextPid, launched |-> launched,
            handle |-> NoHandle, exc |-> "none"]

Commit(m) ==
    /\ procs' = m.procs
    /\ fuzz_id' = m.fuzz_id
    /\ ptable' = m.ptable
    /\ nextPid' = m.nextPid
    /\ launched' = m.launched

(***************************************************************************)
(* start(): lines 114-126, with _crash_test, lines 252-273.                *)
(***************************************************************************)
\* what the harness process did: "no_exec": it could not be created (Popen
\* raised OSError); otherwise it ended, with the return code Poll gives
HarnessOutcomes == {"no_exec", "signal", "exit0", "exit1"}

\* p.poll() of an ended process: minus the signal's number, or the exit status
Poll(h) == CASE h = "signal" -> 0 - 11 [] h = "exit0" -> 0 [] OTHER -> 1

\* the comparison of line 267 with its sign turned
CrashedSignSlip(h) == Poll(h) > 0

\* line 267
Crashed(h) == Poll(h) < 0

\* lines 252-273: [exc, ret, jfile]; the temporary file made at line 256
\* is removed at line 272, which an exception of Popen never reaches
CrashTest(h) ==
    IF h = "no_exec" THEN [exc |-> "OSError", ret |-> FALSE, jfile |-> "present"]
    ELSE [exc |-> "none", ret |-> Crashed(h), jfile |-> "absent"]

Start(h, failAt, kind) ==
    /\ phase = "ready"
    /\ fuzz_id + NumLaunches(afl_count) <= MaxWorkers
    /\ failAt <= NumLaunches(afl_count)
    /\ Crashed(h) \/ h = "no_exec" => failAt = 0
    /\ UNCHANGED << in_disk, dict_file, out_disk, cfgVars >>
    /\ LET t == CrashTest(h) IN
       /\ jfile' = t.jfile
       /\ IF t.exc # "none"
          THEN /\ ret' = StartRet(h, t.exc)
               /\ UNCHANGED << osVars, runVars, launched >>
          ELSE IF t.ret
          THEN \* line 121
               /\ ret' = StartRet(h, "EarlyCrash")
               /\ UNCHANGED << osVars, runVars, launched >>
          ELSE LET m == StartAfl(Machine, afl_count, Outcomes(failAt, kind)) IN
               /\ Commit(m)
               /\ _on' = IF m.exc = "none" THEN TRUE ELSE _on
               /\ ret' = StartRet(h, m.exc)

(***************************************************************************)
(* add_fuzzer(), add_fuzzers(n): lines 184-190.                            *)
(***************************************************************************)
AddFuzzer(outcome) ==
    /\ phase = "ready"
    /\ fuzz_id + 1 <= MaxWorkers
    /\ UNCHANGED << diskVars, cfgVars, _on >>
    /\ LET m == Launch(Machine, outcome) IN
       /\ Commit(m)
       /\ ret' = Ret("add_fuzzer", 1, m.exc, FALSE, EmptyDir)

\* lines 189-190
RECURSIVE AddLoop(_, _, _, _)
AddLoop(m, outs, k, left) ==
    IF left = 0 THEN m ELSE AddLoop(Launch(m, outs[k]), outs, k + 1, left - 1)

AddFuzzers(n, failAt, kind) ==
    /\ phase = "ready"
    /\ fuzz_id + n <= MaxWorkers
    /\ failAt <= n
    /\ UNCHANGED << diskVars, cfgVars, _on >>
    /\ LET m == AddLoop(Machine, Outcomes(failAt, kind), 1, n) IN
       /\ Commit(m)
       /\ ret' = Ret("add_fuzzers", n, m.exc, FALSE, EmptyDir)

(***************************************************************************)
(* kill(): lines 145-150.                                                  *)
(***************************************************************************)
\* p.terminate(): the signal ends a running worker; p.wait(): the exited
\* worker is reaped and its process id leaves the process table
Terminate(pt, pid) ==
    IF pid \in DOMAIN pt THEN [pt EXCEPT ![pid] = "zombie"] ELSE pt
\* kill() without line 148: the worker is signalled and never waited for
NoWait(pt, pid) == pt

Wait(pt, pid) == [q \in DOMAIN pt \ {pid} |-> pt[q]]

\* lines 146-148: [ptable, trace]
RECURSIVE KillLoop(_, _, _)
KillLoop(ps, i, k) ==
    IF i > Len(ps) THEN k
    ELSE KillLoop(ps, i + 1,
                  [ptable |-> Wait(Terminate(k.ptable, ps[i].pid), ps[i].pid),
                   trace |-> k.trace \o << << "terminate", ps[i].pid >>,
                                           << "wait", ps[i].pid >> >>])

\* a kill() that also removes the input directory
KillRemovesInput ==
    /\ phase = "ready"
    /\ UNCHANGED << dict_file, out_disk, jfile, cfgVars, nextPid, procs, fuzz_id, launched >>
    /\ in_disk' = NoInDir
    /\ LET k == KillLoop(procs, 1, [ptable |-> ptable, trace |-> << >>]) IN
       /\ ptable' = k.ptable
       /\ _on' = FALSE
       /\ ret' = Ret("kill", 0, "none", FALSE, k.trace)

Kill ==
    /\ phase = "ready"
    /\ UNCHANGED << diskVars, cfgVars, nextPid, procs, fuzz_id, launched >>
    /\ LET k == KillLoop(procs, 1, [ptable |-> ptable, trace |-> << >>]) IN
       /\ ptable' = k.ptable
       /\ _on' = FALSE
       /\ ret' = Ret("kill", 0, "none", FALSE, k.trace)

(***************************************************************************)
(* alive: lines 128-143.                                                   *)
(***************************************************************************)
\* os.kill(pid, 0) raises OSError when no process has the id
Probe(pt, pid) == pid \in DOMAIN pt

\* lines 136-141, in the order the dict yields the entries: [exc, cnt]
RECURSIVE AliveLoop(_, _, _, _, _)
AliveLoop(st, pt, order, i, cnt) ==
    IF i > Len(order) THEN [exc |-> "none", cnt |-> cnt]
    ELSE LET e == st[order[i]] IN
         IF FUZZER_PID \notin DOMAIN e THEN [exc |-> "KeyError", cnt |-> cnt]
         ELSE IF ~IsInt(e[FUZZER_PID]) THEN [exc |-> "ValueError", cnt |-> cnt]
         ELSE AliveLoop(st, pt, order, i + 1,
                        IF Probe(pt, IntOf(e[FUZZER_PID])) THEN cnt + 1 ELSE cnt)

\* [exc, val]
alive(on, out, pt, order) ==
    IF ~on THEN [exc |-> "none", val |-> FALSE]
    ELSE LET st == stats(out) IN
         IF st.exc # "none" THEN [exc |-> st.exc, val |-> FALSE]
         ELSE LET a == AliveLoop(st.val, pt, order, 1, 0) IN
              [exc |-> a.exc, val |-> a.exc = "none" /\ a.cnt > 0]

\* the orders in which the parsed status entries may be visited
StatOrders == Orders(StatDirs(out_disk))

Alive ==
    /\ phase = "ready"
    /\ UNCHANGED << diskVars, osVars, cfgVars, runVars, launched >>
    /\ \E order \in StatOrders :
         LET a == alive(_on, out_disk, ptable, order) IN
         ret' = Ret("alive", 0, a.exc, a.val, EmptyDir)

(***************************************************************************)
(* The calls that only read the sync directory.                            *)
(***************************************************************************)
Stats ==
    /\ phase = "ready"
    /\ UNCHANGED << diskVars, osVars, cfgVars, runVars, launched >>
    /\ LET st == stats(out_disk) IN ret' = Ret("stats", 0, st.exc, FALSE, st.val)

FoundCrash ==
    /\ phase = "ready"
    /\ UNCHANGED << diskVars, osVars, cfgVars, runVars, launched >>
    /\ \E order \in StatOrders :
         LET fc == found_crash(out_disk, order) IN
         ret' = Ret("found_crash", 0, fc.exc, fc.val, EmptyDir)

Crashes ==
    /\ phase = "ready"
    /\ UNCHANGED << diskVars, osVars, cfgVars, runVars, launched >>
    /\ \E order \in StatOrders :
         LET c == crashes(out_disk, order) IN
         ret' = Ret("crashes", 0, c.exc, FALSE, c.val)

(***************************************************************************)
(* The environment: the worker processes.                                  *)
(***************************************************************************)
EnvRet == Ret("env", 0, "none", FALSE, EmptyDir)

\* a process ends by itself; a child of the object stays a zombie until
\* kill() waits for it, another process leaves the table
Zombies == {p \in DOMAIN ptable : ptable[p] = "zombie"}

ProcessExit(pid) ==
    /\ pid \in DOMAIN ptable
    /\ ptable[pid] = "running"
    /\ pid # OtherPid => Cardinality(Zombies) < MaxExits
    /\ ptable' = IF pid = OtherPid THEN Wait(ptable, pid)
                 ELSE [ptable EXCEPT ![pid] = "zombie"]
    /\ ret' = EnvRet
    /\ UNCHANGED << diskVars, nextPid, cfgVars, runVars, launched >>

\* the content of the worker's own directory, created on first use
DirOf(out, name) ==
    IF out.exists /\ name \in DOMAIN out.dirs THEN out.dirs[name]
    ELSE WorkerDir(NoStat, NoCrashDir)

\* a running worker writes its status file
WorkerWritesStats(w, blob) ==
    /\ w.pid \in DOMAIN ptable /\ ptable[w.pid] = "running"
    /\ out_disk' = [exists |-> TRUE,
                    dirs |-> Put(out_disk.dirs, w.name,
                                 [DirOf(out_disk, w.name) EXCEPT !.stat = StatFile(blob)])]
    /\ out_disk' # out_disk
    /\ Cardinality(StatDirs(out_disk') \ {FuzzerName(0)}) <= MaxStatFiles
    /\ ret' = EnvRet
    /\ UNCHANGED << in_disk, dict_file, jfile, osVars, cfgVars, runVars, launched >>

\* the status files workers write in the lifecycle specification
WorkerStats(w) == {GoodStat(w.pid, 0)}

LaunchedWorkers == {launched[k] : k \in DOMAIN launched}

(***************************************************************************)
(* The specification.                                                      *)
(***************************************************************************)
SeedLists == UNION {[1..n -> SeedBytes] : n \in 0..MaxSeeds}
SeedArgs == {None} \cup {List(v) : v \in SeedLists}
ExtraArgs == {None, List(<< "-t" >>), Str(<< "-t" >>)}
FailKinds == {"open_fails", "popen_fails"}
\* no launch of a call fails (at = 0), or the at-th one does, in one way
Failures(n) == {[at |-> 0, kind |-> "ok"]}
               \cup {[at |-> k, kind |-> kind] : k \in 1..n, kind \in FailKinds}

Next ==
    \/ \E count \in 0..MaxCount : Construct(count, None, FALSE, None, TRUE, "ok")
    \/ \E h \in HarnessOutcomes, f \in Failures(MaxWorkers) : Start(h, f.at, f.kind)
    \/ \E outcome \in LaunchOutcomes : AddFuzzer(outcome)
    \/ \E n \in 0..MaxAdd, f \in Failures(MaxAdd) : AddFuzzers(n, f.at, f.kind)
    \/ Kill
    \/ Alive
    \/ \E pid \in DOMAIN ptable : ProcessExit(pid)
    \/ \E w \in LaunchedWorkers : \E blob \in WorkerStats(w) : WorkerWritesStats(w, blob)

Spec == Init /\ [][Next]_vars

(***************************************************************************)
(* The monitoring calls on a job directory an earlier run left behind:     *)
(* specification MonitorSpec.  The sync directory holds up to two worker   *)
(* directories, written by the fuzzing engine, in any of the states below. *)
(***************************************************************************)
\* a line without ':'
NoColonStat == GoodStat(1, 0) \o << "garbage", NL >>
\* a line with two ':'
TwoColonStat == GoodStat(1, 0) \o << "command_line", SP, COLON, SP, "a", COLON, "b", NL >>
\* a file caught in the middle of its last line
MidWriteStat == << "fuzzer_pid", SP, COLON, SP, "1", NL, "unique_crashes", SP, COLON >>
\* a counter that is no number
BadCountStat == << "fuzzer_pid", SP, COLON, SP, "1", NL,
                   "unique_crashes", SP, COLON, SP, "x", NL >>
StatBlobs == {<< >>, GoodStat(1, 0), GoodStat(1, 2), NoColonStat, TwoColonStat,
              MidWriteStat, BadCountStat}
StatFiles == {NoStat} \cup {StatFile(b) : b \in StatBlobs}

Files1(n, c) == [f \in {n} |-> c]
Files2(n1, c1, n2, c2) == [f \in {n1, n2} |-> IF f = n1 THEN c1 ELSE c2]
CrashDirs == {NoCrashDir, CrashDir(EmptyDir),
              CrashDir(Files1(README, "doc")),
              CrashDir(Files2(README, "doc", "id0", "A")),
              CrashDir(Files2("id0", "A", "id1", "A")),
              CrashDir(Files2("id0", "A", "id1", "B")),
              CrashDir(Files1("id0", "B"))}

WorkerDirs == {WorkerDir(st, cr) : st \in StatFiles, cr \in CrashDirs}
SyncNames == {FuzzerName(0), FuzzerName(1)}
OutDisks == {NoOutDir}
            \cup {[exists |-> TRUE, dirs |-> ds] :
                    ds \in UNION {[N -> WorkerDirs] : N \in SUBSET SyncNames}}

MonitorInit ==
    /\ in_disk = [exists |-> TRUE, files |-> OldInput]
    /\ dict_file = FALSE
    /\ out_disk \in OutDisks
    /\ ptable = EmptyDir
    /\ InitRest

MonitorNext ==
    \/ Construct(1, None, FALSE, None, TRUE, "ok")
    \/ Stats
    \/ FoundCrash
    \/ Crashes

MonitorSpec == MonitorInit /\ [][MonitorNext]_vars

\* a status file every line of which is "key: value"
WellFormed(d) == ParseStatFile(out_disk.dirs[d].stat.blob).exc = "none"
Parsed(d) == ParseStatFile(out_disk.dirs[d].stat.blob).val

\* C6: stats() does not fail on a malformed status file, and returns the
\* parsed content of every well-formed status file.
C6_StatsIsolatesFailures ==
    ret.op = "stats" =>
        /\ ret.exc = "none"
        /\ \A d \in StatDirs(out_disk) :
              WellFormed(d) => d \in DOMAIN ret.out /\ ret.out[d] = Parsed(d)

\* a worker whose status reports a positive number of unique crashes
ReportsCrash(d) ==
    /\ WellFormed(d)
    /\ UNIQUE_CRASHES \in DOMAIN Parsed(d)
    /\ IsInt(Parsed(d)[UNIQUE_CRASHES])
    /\ IntOf(Parsed(d)[UNIQUE_CRASHES]) > 0

\* C7: found_crash() does not fail, and returns true exactly when some
\* worker's status reports unique_crashes > 0.
C7_FoundCrashIffPositive ==
    ret.op = "found_crash" =>
        /\ ret.exc = "none"
        /\ ret.val = (\E d \in StatDirs(out_disk) : ReportsCrash(d))

\* the contents of the files of all crashes directories, README.txt left out
CrashContents ==
    UNION {{out_disk.dirs[d].crashes.files[f] :
               f \in DOMAIN out_disk.dirs[d].crashes.files \ {README}} :
           d \in {e \in DOMAIN out_disk.dirs : out_disk.dirs[e].crashes.isdir}}

\* C8: a crashes() that returns gives the empty list when no worker reports
\* a crash, and otherwise each distinct content of the crash files (without
\* README.txt) of all workers exactly once; the result is a function of the
\* sync directory alone, so two calls on the same directory agree.
C8_CrashesAreDistinctContents ==
    (ret.op = "crashes" /\ ret.exc = "none") =>
        IF \E d \in StatDirs(out_disk) : ReportsCrash(d)
        THEN /\ DOMAIN ret.out = CrashContents
             /\ \A c \in CrashContents : ret.out[c] = 1
        ELSE ret.out = EmptyBag

\* crashes() has returned one entry for an input two workers both found,
\* in directories that also hold a README.txt and a second crash
C8_Witness ==
    /\ ret.op = "crashes" /\ ret.exc = "none"
    /\ out_disk.exists /\ DOMAIN out_disk.dirs = SyncNames
    /\ out_disk.dirs[FuzzerName(0)].crashes = CrashDir(Files2(README, "doc", "id0", "A"))
    /\ out_disk.dirs[FuzzerName(1)].crashes = CrashDir(Files2("id0", "A", "id1", "B"))
    /\ DOMAIN ret.out = {"A", "B"}

(***************************************************************************)
(* Properties of the campaign's life cycle (specification Spec).           *)
(***************************************************************************)
Tracked == {procs[k] : k \in DOMAIN procs}
Primaries == {k \in DOMAIN procs : procs[k].flag = "-M"}
Running(pid) == pid \in DOMAIN ptable /\ ptable[pid] = "running"

\* C1: once a worker has been launched, exactly one tracked worker is the
\* primary, it is the first worker ever launched, every other tracked worker
\* is a secondary, and no two tracked workers share a role name or a log file.
C1_OnePrimary ==
    launched # << >> =>
        /\ Cardinality(Primaries) = 1
        /\ procs # << >> /\ procs[1].flag = "-M" /\ procs[1] = launched[1]
        /\ \A k \in DOMAIN procs : k > 1 => procs[k].flag = "-S"
        /\ \A j, k \in DOMAIN procs :
              j # k => procs[j].name # procs[k].name /\ procs[j].log # procs[k].log

Fresh == procs = << >> /\ fuzz_id = 0 /\ launched = << >> /\ ~_on

\* C3: a start() that returns on a fresh campaign with afl_count = n >= 1 has
\* launched exactly n workers: the primary first, then the secondaries
\* fuzzer-1 .. fuzzer-(n-1), in this order.
C3_StartLaunchesN ==
    [][(ret'.op = "start" /\ ret'.exc = "none" /\ Fresh /\ afl_count >= 1) =>
          /\ Len(procs') = afl_count
          /\ launched' = procs'
          /\ procs'[1].flag = "-M" /\ procs'[1].name = << "fuzzer-master" >>
          /\ \A k \in 2..afl_count :
                procs'[k].flag = "-S" /\ procs'[k].name = << "fuzzer-", k - 1 >>
          /\ \A j, k \in 1..afl_count : j < k => procs'[j].pid < procs'[k].pid]_vars

\* a first start() with the largest worker count has returned
C3_Witness ==
    /\ ret.op = "start" /\ ret.exc = "none"
    /\ afl_count = MaxCount /\ Len(launched) = MaxCount /\ procs = launched

C5_AliveIffTrackedRuns ==
    ret.op = "alive" =>
        /\ ret.exc = "none"
        /\ ret.val = (_on /\ \E k \in DOMAIN procs : Running(procs[k].pid))

(***************************************************************************)
(* Construction with every kind of argument, on every kind of job          *)
(* directory, followed by launches: specification ConfigSpec.              *)
(***************************************************************************)
ConfigInit ==
    /\ in_disk \in InDisks
    /\ dict_file \in BOOLEAN
    /\ out_disk = NoOutDir
    /\ ptable = EmptyDir
    /\ InitRest

\* what the create_dict.py process of line 246 does
BuildOutcomes == {"ok", "failed", "no_exec"}
\* the constructor as ConfigNext calls it
Constructs(extra, create, sds, mk, build) == Construct(2, extra, create, sds, mk, build)

ConfigNext ==
    \/ \E extra \in ExtraArgs, create \in BOOLEAN, sds \in SeedArgs,
          mk \in BOOLEAN, build \in BuildOutcomes :
          Constructs(extra, create, sds, mk, build)
    \/ \E h \in HarnessOutcomes :
          fuzz_id + NumLaunches(afl_count) <= MaxLaunch /\ Start(h, 0, "ok")
    \/ \E outcome \in LaunchOutcomes : fuzz_id < MaxLaunch /\ AddFuzzer(outcome)
    \/ \E n \in 0..MaxAdd : fuzz_id + n <= MaxLaunch /\ AddFuzzers(n, 0, "ok")
    \/ Kill

ConfigSpec == ConfigInit /\ [][ConfigNext]_vars

\* the input directory holds at least one entry
HasEntries(disk) == disk.exists /\ DOMAIN disk.files # {}

\* C9: an object constructed on a missing or empty input directory has a
\* non-empty seed list, and the input directory holds exactly one file per
\* seed, the file of the i-th seed (seed-0, seed-1, ...) holding its bytes.
C9_OneFilePerSeed ==
    (phase = "ready" /\ ~resuming) =>
        /\ Len(seeds) > 0
        /\ in_disk.exists
        /\ Cardinality(DOMAIN in_disk.files) = Len(seeds)
        /\ \A i \in 1..Len(seeds) :
              /\ << "seed-", i - 1 >> \in DOMAIN in_disk.files
              /\ in_disk.files[<< "seed-", i - 1 >>] = seeds[i]

\* constructed on a fresh directory with two equal seeds
C9_Witness ==
    /\ ret.op = "init" /\ phase = "ready" /\ ~resuming
    /\ seeds = << "A", "A" >>

\* C10: an input directory that holds an entry is never changed, whatever
\* seeds are passed; constructing on it succeeds with resuming set; and every
\* worker of a resuming campaign is launched with "-i -".
C10_ResumeLeavesInput ==
    [][/\ HasEntries(in_disk) => in_disk' = in_disk
       /\ (ret'.op = "init" /\ HasEntries(in_disk)) =>
             /\ ret'.exc \in {"none", "ValueError"}
             /\ ret'.exc = "none" => phase' = "ready" /\ resuming' /\ in_dir' = "-"
       /\ (phase' = "ready" /\ resuming') =>
             \A k \in DOMAIN launched' : launched'[k].i = "-"
       /\ (ret'.op = "init" /\ ret'.exc = "none" /\ resuming') => HasEntries(in_disk)]_vars

\* constructed with an empty seed list on a directory that held an entry, and
\* a worker launched afterwards
C10_Witness ==
    /\ phase = "ready" /\ resuming /\ seeds = << >>
    /\ in_disk.files = OldInput
    /\ launched # << >> /\ launched[1].i = "-"

\* C11: a construction with extra_opts that is no list, or with an empty seed
\* list on an input directory without entries, raises (ValueError, line 44;
\* AssertionError, line 227) and leaves no object; while there is no object
\* no call has run and no worker was launched.
C11_BadConfigFails ==
    [][ /\ \A extra \in ExtraArgs, create \in BOOLEAN, sds \in SeedArgs,
              mk \in BOOLEAN, build \in BuildOutcomes :
              (/\ Constructs(extra, create, sds, mk, build)
               /\ \/ extra.tag = "str"
                  \/ sds = List(<< >>) /\ ~HasEntries(in_disk))
              => /\ ret'.exc \in {"ValueError", "AssertionError"}
                 /\ phase' = "none"
                 /\ launched' = << >> /\ procs' = << >> /\ ptable' = ptable
        /\ phase' = "none" =>
              /\ ret'.op \in {"none", "init"}
              /\ launched' = << >> /\ procs' = << >> /\ ~_on'
      ]_vars

\* the constructor has failed on an empty seed list, after creating input/
C11_Witness ==
    /\ ret.op = "init" /\ ret.exc = "AssertionError" /\ phase = "none"
    /\ in_disk.exists /\ in_disk.files = EmptyDir /\ launched = << >>

(***************************************************************************)
(* The preflight check's temporary file, under Spec.                       *)
(***************************************************************************)
\* C12: when start() has ended, by returning or by raising, the temporary
\* file its preflight check made no longer exists.
C12_TempFileRemoved == ret.op = "start" => jfile = "absent"

\* C16: all workers of an object have the same -x argument and the same
\* extra arguments, those the constructor stored, whichever call launched
\* them and whether kill() came before; no call on the object changes
\* self.dictionary or self.extra_opts.
C16_SameDictAndExtras ==
    [][ /\ \A j, k \in DOMAIN launched' :
              /\ launched'[j].x = launched'[k].x
              /\ launched'[j].extra = launched'[k].extra
        /\ \A k \in DOMAIN launched' :
              /\ launched'[k].x = dictionary'
              /\ extra_opts'.tag = "list" => launched'[k].extra = extra_opts'.v
              /\ extra_opts'.tag = "None" => launched'[k].extra = << >>
        /\ phase = "ready" => dictionary' = dictionary /\ extra_opts' = extra_opts
      ]_vars

\* a worker launched after kill() has the dictionary and the extra argument
\* of the worker launched before it
C16_Witness ==
    /\ Len(launched) >= 2
    /\ launched[1].pid \notin DOMAIN ptable /\ launched[2].pid \in DOMAIN ptable
    /\ launched[1].flag = "-M" /\ launched[2].flag = "-S"
    /\ launched[2].x = DictPath /\ launched[2].extra = << "-t" >>

(***************************************************************************)
(* The dictionary, under ConfigSpec.                                       *)
(***************************************************************************)
\* the seeds of this call can be written, or need not be
SeedsGoThrough(sds, mk) ==
    \/ HasEntries(in_disk)
    \/ sds # List(<< >>) /\ (in_disk.exists \/ mk)

\* C13: a construction that the other arguments do not stop returns,
\* whatever the dictionary build did; the build changes the dictionary file
\* only when it was requested, no file existed and the run is not resumed;
\* self.dictionary is set exactly when the file existed or the build made it.
C13_DictionaryNeverFatal ==
    [][ \A extra \in ExtraArgs, create \in BOOLEAN, sds \in SeedArgs,
           mk \in BOOLEAN, build \in BuildOutcomes :
           (/\ Constructs(extra, create, sds, mk, build)
            /\ extra.tag # "str" /\ SeedsGoThrough(sds, mk))
           => /\ ret'.exc = "none" /\ phase' = "ready"
              /\ dict_file' # dict_file
                    => create /\ ~dict_file /\ ~HasEntries(in_disk)
              /\ (dictionary' = DictPath)
                    <=> (dict_file
                         \/ (create /\ ~HasEntries(in_disk) /\ build = "ok"))
      ]_vars

(***************************************************************************)
(* Further properties of the life cycle, under Spec.                       *)
(***************************************************************************)
\* C14: a worker is launched only by a constructed object, with the input
\* argument and the dictionary the constructor resolved, and every launch
\* of a secondary comes after a launch of the primary.
C14_LaunchOrder ==
    /\ launched # << >> => phase = "ready"
    /\ \A k \in DOMAIN launched :
          /\ launched[k].i = in_dir /\ launched[k].x = dictionary
          /\ launched[k].flag = "-S"
                => \E j \in 1..(k - 1) : launched[j].flag = "-M"

(***************************************************************************)
(* One job directory used by several objects in turn: specification        *)
(* ResumeSpec.  The class has no __del__ and kill() clears nothing on      *)
(* disk: an object that is dropped leaves input/, sync/ and the processes  *)
(* it did not kill as they are.                                            *)
(***************************************************************************)
\* the object is dropped, after kill() or without it
Discard ==
    /\ phase = "ready"
    /\ phase' = "none"
    /\ afl_count' = 0 /\ seeds' = << >> /\ extra_opts' = None /\ dictionary' = NoDict
    /\ procs' = << >> /\ fuzz_id' = 0 /\ resuming' = FALSE /\ _on' = FALSE
    /\ in_dir' = InputPath
    /\ launched' = << >>
    /\ ret' = Ret("discard", 0, "none", FALSE, EmptyDir)
    /\ UNCHANGED << diskVars, osVars >>

\* the seeds argument: the default, one seed, no seed
ResumeSeeds == {None, List(<< "A" >>), List(<< >>)}

\* at most MaxLaunch processes are created over all objects
PidsLeft(n) == nextPid + n <= MaxLaunch + 1

ResumeNext ==
    \/ \E sds \in ResumeSeeds : Construct(1, None, FALSE, sds, TRUE, "ok")
    \/ \E h \in {"exit0", "signal"} : PidsLeft(NumLaunches(afl_count)) /\ Start(h, 0, "ok")
    \/ \E n \in 0..MaxAdd : PidsLeft(n) /\ AddFuzzers(n, 0, "ok")
    \/ Kill
    \/ Discard
    \/ Stats
    \/ Alive
    \/ \E pid \in DOMAIN ptable : ProcessExit(pid)
    \/ \E w \in LaunchedWorkers : \E blob \in WorkerStats(w) : WorkerWritesStats(w, blob)

ResumeSpec == Init /\ [][ResumeNext]_vars

\* the process a status entry names
EntryPid(d) == IntOf(Parsed(d)[FUZZER_PID])

\* alive has answered true only when the process of some entry has not exited
AliveMeansRunning ==
    (ret.op = "alive" /\ ret.val)
        => \E d \in StatDirs(out_disk) : Running(EntryPid(d))

\* C15: a stats() that follows add_fuzzers(n) has at most n entries, and
\* alive is true only when the process of some entry has not exited.
C15_AtMostNEntries ==
    /\ [][ (ret.op = "add_fuzzers" /\ ret.exc = "none" /\ ret'.op = "stats")
             => /\ ret'.exc = "none"
                /\ Cardinality(DOMAIN ret'.out) <= ret.arg ]_vars
    /\ []AliveMeansRunning

\* C17: kill() and the end of the object change nothing under input/ and
\* sync/; every object leaves an input directory with entries, so the next
\* object on the job directory is constructed resuming, writes no seed, and
\* its workers get "-i -".
C17_DiskOutlivesObject ==
    [][ /\ ret'.op \in {"kill", "discard"}
              => in_disk' = in_disk /\ out_disk' = out_disk /\ dict_file' = dict_file
        /\ ret'.op = "discard" => HasEntries(in_disk')
        /\ (ret'.op = "init" /\ HasEntries(in_disk))
              => /\ ret'.exc = "none" /\ resuming' /\ in_dir' = ResumeSentinel
                 /\ in_disk' = in_disk
        /\ resuming' => \A k \in DOMAIN launched' : launched'[k].i = ResumeSentinel
      ]_vars

\* the second object on the job directory, constructed after the first was
\* started and killed, has started its primary with "-i -", the seed of the
\* first object still being the only file of input/
C17_Witness ==
    /\ ret.op = "start" /\ ret.exc = "none" /\ resuming
    /\ Len(launched) = 1 /\ launched[1].pid = nextPid - 1
    /\ launched[1].i = ResumeSentinel
    /\ DOMAIN ptable = {launched[1].pid} /\ nextPid > Len(launched) + 1
    /\ in_disk.files = Files1(SeedFile(0), "A")

(***************************************************************************)
(* The bookkeeping of launches, under Spec.                                *)
(***************************************************************************)
\* C18: add_fuzzer() either launches one worker, appends its handle and
\* advances fuzz_id by one, or raises and leaves procs and fuzz_id as they
\* were; in every state fuzz_id is the number of tracked workers.
C18_AddFuzzerAtomic ==
    /\ [][ ret'.op = "add_fuzzer" =>
             IF ret'.exc = "none"
             THEN /\ Len(procs') = Len(procs) + 1 /\ fuzz_id' = fuzz_id + 1
                  /\ Len(launched') = Len(launched) + 1
                  /\ procs'[Len(procs')] = launched'[Len(launched')]
             ELSE procs' = procs /\ fuzz_id' = fuzz_id /\ launched' = launched
          ]_vars
    /\ [](fuzz_id = Len(procs))

\* the processes created in this step
Created == DOMAIN ptable' \ DOMAIN ptable

\* C19: a start() that raises leaves no worker it launched running, and
\* does not make the campaign active.
C19_StartAllOrNothing ==
    [][ (ret'.op = "start" /\ ret'.exc # "none")
           => /\ \A pid \in Created : ptable'[pid] # "running"
              /\ ~_on => ~_on'
      ]_vars

\* the tracked workers launched since the last kill(): kill() waits for
\* every tracked worker, and nothing else takes a child off the process table
SinceKill == {k \in DOMAIN procs : procs[k].pid \in DOMAIN ptable}

\* C20: while the campaign is active, a primary is among the workers
\* launched since the last kill(), or since construction.
C20_ActiveHasPrimary ==
    _on => \E k \in SinceKill : procs[k].flag = "-M"

====
